---------------------------- MODULE Spec2Model ----------------------------
(***************************************************************************)
(* Abfuhrkalender.ino: the calendar ingestion (getIcs, parseIcsLine) and   *)
(* the daily LED refresh (updateLeds, isEventOnDate).                      *)
(*                                                                         *)
(* A String is a sequence of one-character strings, so that strstr,        *)
(* substring, trim, atoi and the concatenation of folded lines are         *)
(* computed as the code computes them.                                     *)
(***************************************************************************)
EXTENDS Integers, Sequences, FiniteSets, TLC

(***************************************************************************)
(* Program constants                                                       *)
(***************************************************************************)
numOfNeoPixels == 3
maxNumberOfEvents == 100

\* enum TrashType
RESIDUAL == 0
BIO == 1
PLASTIC == 2
PAPER == 3
CHRISTMAS_TREE == 4
COUNT == 5

\* enum TodaysEventDay
TODAY == 0
TOMORROW == 1

TrashTypeRed == <<150, 150, 200, 1, 0>>
TrashTypeGreen == <<150, 20, 200, 1, 255>>
TrashTypeBlue == <<140, 0, 0, 255, 0>>

eventTrigger == <<"D", "T", "S", "T", "A", "R", "T", ";", "V", "A", "L", "U", "E", "=", "D", "A", "T", "E", ":">>
eventTypeTrigger == <<"S", "U", "M", "M", "A", "R", "Y", ":">>
TrashTypeStrings ==
  << <<"R", "e", "s", "t", "a", "b", "f", "a", "l", "l">>,
     <<"B", "i", "o", "a", "b", "f", "a", "l", "l">>,
     <<"W", "e", "r", "t", "s", "t", "o", "f", "f">>,
     <<"P", "a", "p", "i", "e", "r", "t", "o", "n", "n", "e">>,
     <<"T", "a", "n", "n", "e", "n", "b", "a", "u", "m">> >>

(***************************************************************************)
(* String and integer primitives                                           *)
(***************************************************************************)
DigitChars == <<"0", "1", "2", "3", "4", "5", "6", "7", "8", "9">>

\* ::isdigit
IsDigit(c) == \E i \in 1..10 : DigitChars[i] = c

DigitValue(c) == (CHOOSE i \in 1..10 : DigitChars[i] = c) - 1

\* isspace, as String::trim uses it
IsSpace(c) == c \in {" ", "\t", "\n", "\r", "\f"}

\* strstr(haystack, needle) != NULL
StrStr(h, n) == \E i \in 0..(Len(h) - Len(n)) : SubSeq(h, i + 1, i + Len(n)) = n

\* String::substring(left, right): the characters [left, right), clamped
Substring(s, left, right) ==
  LET lo == IF left > right THEN right ELSE left
      hi == IF left > right THEN left ELSE right
      hc == IF hi > Len(s) THEN Len(s) ELSE hi
  IN IF lo >= Len(s) THEN <<>> ELSE SubSeq(s, lo + 1, hc)

RECURSIVE TrimLeft(_)
TrimLeft(s) == IF s # <<>> /\ IsSpace(Head(s)) THEN TrimLeft(Tail(s)) ELSE s

RECURSIVE TrimRight(_)
TrimRight(s) ==
  IF s # <<>> /\ IsSpace(s[Len(s)]) THEN TrimRight(SubSeq(s, 1, Len(s) - 1)) ELSE s

\* String::trim
Trim(s) == TrimRight(TrimLeft(s))

\* std::all_of(line.begin(), line.end(), ::isdigit): true of the empty line
AllDigits(s) == \A i \in 1..Len(s) : IsDigit(s[i])

RECURSIVE AtoiDigits(_, _)
AtoiDigits(s, acc) ==
  IF s # <<>> /\ IsDigit(Head(s))
  THEN AtoiDigits(Tail(s), 10 * acc + DigitValue(Head(s)))
  ELSE acc

\* atoi: leading white space, an optional sign, then the leading run of digits
Atoi(s) ==
  LET t == TrimLeft(s)
  IN IF t # <<>> /\ Head(t) = "-" THEN 0 - AtoiDigits(Tail(t), 0)
     ELSE IF t # <<>> /\ Head(t) = "+" THEN AtoiDigits(Tail(t), 0)
     ELSE AtoiDigits(t, 0)

\* conversion to uint8_t
U8(n) == ((n % 256) + 256) % 256

(***************************************************************************)
(* The wall clock: day n of the run is DateOf(n), counted from BaseDate.   *)
(***************************************************************************)
BaseDate == [year |-> 2025, month |-> 3, day |-> 30]

IsLeap(y) == (y % 4 = 0 /\ y % 100 # 0) \/ y % 400 = 0

DaysInMonth(y, m) ==
  IF m = 2 THEN (IF IsLeap(y) THEN 29 ELSE 28)
  ELSE IF m \in {4, 6, 9, 11} THEN 30 ELSE 31

NextDate(d) ==
  IF d.day < DaysInMonth(d.year, d.month) THEN [d EXCEPT !.day = d.day + 1]
  ELSE IF d.month < 12 THEN [year |-> d.year, month |-> d.month + 1, day |-> 1]
  ELSE [year |-> d.year + 1, month |-> 1, day |-> 1]

RECURSIVE DateOf(_)
DateOf(n) == IF n = 0 THEN BaseDate ELSE NextDate(DateOf(n - 1))

\* struct tm of a calendar date
TmOf(d) == [tm_year |-> d.year - 1900, tm_mon |-> d.month - 1, tm_mday |-> d.day]


(***************************************************************************)
(* State                                                                   *)
(***************************************************************************)
VARIABLES
  events,               \* Event events[maxNumberOfEvents]
  numberOfEvents,       \* int numberOfEvents
  trigger,              \* parseIcsLine: static bool trigger
  pc,                   \* where getIcs stands: "start", "reading", "parsed", "failed"
  body,                 \* the raw lines readStringUntil has still to deliver
  oldLine,              \* getIcs: String oldLine
  onlyDigitsInLine,     \* getIcs: bool onlyDigitsInLine
  zeroLines,            \* getIcs: int zeroLines
  getIcsReturn,         \* what the last getIcs call returned
  stream,               \* the response body of the parse pass under way, <<>> outside one
  served,               \* the response body the server keeps serving (SpecRefetch)
  lastResult,           \* <<the Event list the last completed parse pass left>>, <<>> before it
  todaysEvents,         \* TodaysEvent todaysEvents[TrashType::COUNT]
  numberOfTodaysEvents, \* int numberOfTodaysEvents
  pixels,               \* the NeoPixel RAM buffer (setPixelColor, clear)
  shown,                \* the colours the last pixels.show() latched
  lastMonth,            \* updateLeds: static int lastMonth
  lastDay,              \* updateLeds: static int lastDay
  firstRun,             \* updateLeds: static bool firstRun
  staticsInit,          \* updateLeds: its statics have been initialised
  timeinfo,             \* what *timeinfo held when updateLeds last scanned
  timeinfoNextDay,      \* what *timeinfoNextDay held when updateLeds last scanned
  thisDay,              \* updateLeds: bool thisDay, as the scan left it
  lastEventUpdateSuccessful, \* the argument of the updateLeds call that refreshed last
  refreshed,            \* the last updateLeds call reached pixels.show()
  newMonth,             \* what the last updateLeds call returned
  gotLocalTime,         \* what getLocalTime returned in the last updateLeds call
  clockDay,             \* the wall clock: today is DateOf(clockDay)
  tmShared,             \* localtime() hands out one static struct tm
  overrunHitsCount,     \* todaysEvents[COUNT] lies on numberOfTodaysEvents
  loopPc,               \* where loop() stands: "loop", "getIcs" (inside updateIcs), "leds"
  loopFirstRun,         \* loop: static bool firstRun
  success,              \* loop: static bool success
  updateIcsOk           \* updateIcs: bool lastEventUpdateSuccessful

ingestVars == <<events, numberOfEvents, trigger, pc, body, oldLine, onlyDigitsInLine,
                zeroLines, getIcsReturn, stream, served, lastResult>>

ledVars == <<todaysEvents, numberOfTodaysEvents, pixels, shown, lastMonth, lastDay,
             firstRun, staticsInit, timeinfo, timeinfoNextDay, thisDay,
             lastEventUpdateSuccessful, refreshed, newMonth, gotLocalTime, clockDay>>

buildVars == <<tmShared, overrunHitsCount>>

loopVars == <<loopPc, loopFirstRun, success, updateIcsOk>>

vars == <<ingestVars, ledVars, buildVars, loopVars>>

(***************************************************************************)
(* Event Extractor: parseIcsLine                                           *)
(***************************************************************************)
\* an element of the zero-initialised global array
NoEvent == [type |-> 0, year |-> 0, month |-> 0, day |-> 0]

\* events[i]
EventAt(ev, i) == IF i \in DOMAIN ev THEN ev[i] ELSE NoEvent

EventsFullOffByOne(n) == maxNumberOfEvents < n

\* if (maxNumberOfEvents <= numberOfEvents) return;
EventsFull(n) == maxNumberOfEvents <= n

YearFieldNoOffset(line) ==
  U8(Atoi(Substring(line, Len(eventTrigger), Len(eventTrigger) + 4)))

\* events[numberOfEvents].year = (uint8_t)atoi(year.c_str()) - 2000;
YearField(line) ==
  U8(U8(Atoi(Substring(line, Len(eventTrigger), Len(eventTrigger) + 4))) - 2000)

MonthField(line) ==
  U8(Atoi(Substring(line, Len(eventTrigger) + 4, Len(eventTrigger) + 6)))

DayField(line) ==
  U8(Atoi(Substring(line, Len(eventTrigger) + 6, Len(eventTrigger) + 8)))

MatchTypeNoSentinel(line) ==
  IF \E i \in 0..(COUNT - 1) : StrStr(line, TrashTypeStrings[i + 1])
  THEN CHOOSE i \in 0..(COUNT - 1) : StrStr(line, TrashTypeStrings[i + 1])
  ELSE RESIDUAL

\* the for loop over TrashTypeStrings: the first label found in the line, else COUNT
MatchType(line) ==
  IF \E i \in 0..(COUNT - 1) : StrStr(line, TrashTypeStrings[i + 1])
  THEN CHOOSE i \in 0..(COUNT - 1) :
         /\ StrStr(line, TrashTypeStrings[i + 1])
         /\ \A j \in 0..(i - 1) : ~StrStr(line, TrashTypeStrings[j + 1])
  ELSE COUNT

\* a write to events[n]; n is below maxNumberOfEvents wherever the code writes
StoreEvent(ev, n, e) == IF n \in DOMAIN ev THEN [ev EXCEPT ![n] = e] ELSE ev

\* st = [events, numberOfEvents, trigger]
parseIcsLine(st, line) ==
  LET n == st.numberOfEvents
      cur == EventAt(st.events, n)
  IN IF EventsFull(n) THEN st
     ELSE IF StrStr(line, eventTrigger)
     THEN [st EXCEPT !.trigger = TRUE,
                     !.events = StoreEvent(@, n, [cur EXCEPT !.year = YearField(line),
                                                              !.month = MonthField(line),
                                                              !.day = DayField(line)])]
     ELSE IF st.trigger /\ StrStr(line, eventTypeTrigger)
     THEN LET ty == MatchType(line)
          IN [st EXCEPT !.trigger = FALSE,
                        !.events = StoreEvent(@, n, [cur EXCEPT !.type = ty]),
                        !.numberOfEvents = IF ty < COUNT THEN n + 1 ELSE n]
     ELSE st

(***************************************************************************)
(* Line Reassembler: the read loop of getIcs                               *)
(***************************************************************************)
\* the Event list a caller sees: events[0 .. numberOfEvents)
EventList(ev, n) == [i \in 1..n |-> EventAt(ev, i - 1)]

\* HTTPClient::begin fails, GET fails, or the code is not HTTP_CODE_OK:
\* getIcs returns false before it touches numberOfEvents.
GetIcsTransportFails ==
  /\ pc # "reading"
  /\ pc' = "failed"
  /\ getIcsReturn' = FALSE
  /\ UNCHANGED <<events, numberOfEvents, trigger, body, oldLine, onlyDigitsInLine,
                 zeroLines, stream, served, lastResult>>
  /\ UNCHANGED <<ledVars, buildVars, loopVars>>

\* HTTP_CODE_OK: numberOfEvents = 0 and the loop's locals are constructed;
\* s is the response body, raw line by raw line.
GetIcsBegin(s) ==
  /\ pc # "reading"
  /\ pc' = "reading"
  /\ numberOfEvents' = 0
  /\ oldLine' = <<>>
  /\ onlyDigitsInLine' = FALSE
  /\ zeroLines' = 0
  /\ body' = s
  /\ stream' = s
  /\ UNCHANGED <<events, trigger, getIcsReturn, served, lastResult>>
  /\ UNCHANGED <<ledVars, buildVars, loopVars>>

\* One iteration of while(line = client->readStringUntil('\n')) on the loop state
\* ls = [events, numberOfEvents, trigger, oldLine, onlyDigitsInLine, zeroLines, done];
\* done is the break at the second consecutive zero-length line.
ReadStep(ls, line) ==
  IF Len(line) = 0
  THEN IF 2 <= ls.zeroLines + 1
       THEN [ls EXCEPT !.zeroLines = ls.zeroLines + 1, !.done = TRUE]
       ELSE [ls EXCEPT !.zeroLines = ls.zeroLines + 1]
  ELSE LET trimmed == Trim(line)
           appended == IF ls.onlyDigitsInLine THEN ls.oldLine \o trimmed ELSE ls.oldLine
           skipOldLine == ls.onlyDigitsInLine
           digits == AllDigits(trimmed)
           st == [events |-> ls.events, numberOfEvents |-> ls.numberOfEvents,
                  trigger |-> ls.trigger]
           parsed == IF ~digits /\ appended # <<>> THEN parseIcsLine(st, appended) ELSE st
       IN [events |-> parsed.events,
           numberOfEvents |-> parsed.numberOfEvents,
           trigger |-> parsed.trigger,
           oldLine |-> IF digits THEN appended ELSE IF skipOldLine THEN <<>> ELSE trimmed,
           onlyDigitsInLine |-> digits,
           zeroLines |-> 0,
           done |-> FALSE]

getIcsResultAlwaysTrue(n) == TRUE

\* if (numberOfEvents == 0) return false;  ...  return true;
getIcsResult(n) == n # 0

\* The String readStringUntil returns is never invalid, so the loop condition is
\* always true and the loop ends only at the break; once the body is exhausted
\* readStringUntil times out and returns "".  With the break the action also takes
\* the code after the loop: return numberOfEvents != 0, the locals are gone.
\* (lineNumber and totalCharacters are only printed.)
ReadLine ==
  /\ pc = "reading"
  /\ LET line == IF body = <<>> THEN <<>> ELSE Head(body)
         rest == IF body = <<>> THEN <<>> ELSE Tail(body)
         ls == ReadStep([events |-> events, numberOfEvents |-> numberOfEvents,
                         trigger |-> trigger, oldLine |-> oldLine,
                         onlyDigitsInLine |-> onlyDigitsInLine,
                         zeroLines |-> zeroLines, done |-> FALSE], line)
     IN /\ events' = ls.events
        /\ numberOfEvents' = ls.numberOfEvents
        /\ trigger' = ls.trigger
        /\ IF ls.done
           THEN /\ pc' = "parsed"
                /\ getIcsReturn' = getIcsResult(numberOfEvents)
                /\ lastResult' = <<EventList(events, numberOfEvents)>>
                /\ body' = <<>>
                /\ stream' = <<>>
                /\ oldLine' = <<>>
                /\ onlyDigitsInLine' = FALSE
                /\ zeroLines' = 0
           ELSE /\ body' = rest
                /\ oldLine' = ls.oldLine
                /\ onlyDigitsInLine' = ls.onlyDigitsInLine
                /\ zeroLines' = ls.zeroLines
                /\ UNCHANGED <<pc, getIcsReturn, stream, lastResult>>
  /\ UNCHANGED served
  /\ UNCHANGED <<ledVars, buildVars, loopVars>>

\* The loop run to its break over a whole response body, from loop state ls.
RECURSIVE getIcsLoop(_, _)
getIcsLoop(ls, lines) ==
  IF ls.done THEN ls
  ELSE getIcsLoop(ReadStep(ls, IF lines = <<>> THEN <<>> ELSE Head(lines)),
                  IF lines = <<>> THEN <<>> ELSE Tail(lines))

\* The Event list one parse pass over lines leaves, in a process that holds the
\* array ev and the parser flag trig when the pass starts.
PassResult(ev, trig, lines) ==
  LET ls == getIcsLoop([events |-> ev, numberOfEvents |-> 0, trigger |-> trig,
                        oldLine |-> <<>>, onlyDigitsInLine |-> FALSE,
                        zeroLines |-> 0, done |-> FALSE], lines)
  IN EventList(ls.events, ls.numberOfEvents)

(***************************************************************************)
(* Inputs: raw lines as readStringUntil('\n') returns them                 *)
(***************************************************************************)
LineDate1 == eventTrigger \o <<"2", "0", "2", "5", "0", "3", "3", "1">>
LineDate2 == eventTrigger \o <<"2", "0", "2", "5", "0", "4", "0", "1", "\r">>
LineResidual == eventTypeTrigger \o TrashTypeStrings[RESIDUAL + 1]
LineBio == eventTypeTrigger \o TrashTypeStrings[BIO + 1] \o <<"\r">>
LineDigits == <<"1", "2">>
LineOther == <<"E", "N", "D", ":", "V", "E", "V", "E", "N", "T">>
LineZero == <<>>

RawLines == {LineDate1, LineDate2, LineResidual, LineBio, LineDigits, LineOther, LineZero}

\* the longest response body, in raw lines, of the free-form streams
MaxStreamLen == 3

SeqsUpTo(S, n) == UNION {[1..k -> S] : k \in 0..n}

Streams == SeqsUpTo(RawLines, MaxStreamLen)

\* a long calendar: BulkPairs date+category pairs, then a closing line
BulkPairs == 150

\* the longest free-form prefix in front of the long calendar
MaxPrefixLen == 1

Pairs(k) == [i \in 1..(2 * k) |-> IF i % 2 = 1 THEN LineDate1 ELSE LineResidual]

BulkStreams ==
  {pre \o Pairs(BulkPairs) \o <<LineOther>> :
     pre \in SeqsUpTo({LineDate2, LineBio, LineDigits, LineOther}, MaxPrefixLen)}

(***************************************************************************)
(* Initial state: the globals as the C++ runtime and setup() leave them    *)
(***************************************************************************)
Black == <<0, 0, 0>>
Red == <<255, 0, 0>>

InitIngest ==
  /\ events = [i \in 0..(maxNumberOfEvents - 1) |-> NoEvent]
  /\ numberOfEvents = 0
  /\ trigger = FALSE
  /\ pc = "start"
  /\ body = <<>>
  /\ oldLine = <<>>
  /\ onlyDigitsInLine = FALSE
  /\ zeroLines = 0
  /\ getIcsReturn = FALSE
  /\ stream = <<>>
  /\ lastResult = <<>>

\* setup(): pixels.clear(); pixels.setPixelColor(0, Color(255, 0, 0)); pixels.show();
InitLeds ==
  /\ todaysEvents = [i \in 0..(COUNT - 1) |-> [type |-> 0, day |-> 0]]
  /\ numberOfTodaysEvents = 0
  /\ pixels = [p \in 0..(numOfNeoPixels - 1) |-> IF p = 0 THEN Red ELSE Black]
  /\ shown = [p \in 0..(numOfNeoPixels - 1) |-> IF p = 0 THEN Red ELSE Black]
  /\ lastMonth = 0
  /\ lastDay = 0
  /\ firstRun = TRUE
  /\ staticsInit = FALSE
  /\ timeinfo = TmOf(BaseDate)
  /\ timeinfoNextDay = TmOf(BaseDate)
  /\ thisDay = FALSE
  /\ lastEventUpdateSuccessful = FALSE
  /\ refreshed = FALSE
  /\ newMonth = FALSE
  /\ gotLocalTime = FALSE
  /\ clockDay = 0

InitBuild ==
  /\ tmShared \in BOOLEAN
  /\ overrunHitsCount \in BOOLEAN

\* loop() has not run yet: static bool firstRun = true; static bool success = false;
InitLoop ==
  /\ loopPc = "loop"
  /\ loopFirstRun = TRUE
  /\ success = FALSE
  /\ updateIcsOk = TRUE

(***************************************************************************)
(* Specifications of the ingestion                                         *)
(***************************************************************************)
\* any number of fetches, each with a response body of its own
\* (the refresh takes no step here: the C library's layout is left fixed)
InitFetch ==
  /\ InitIngest /\ InitLeds /\ tmShared = TRUE /\ overrunHitsCount = FALSE
  /\ InitLoop
  /\ served = <<>>

NextFetch ==
  \/ GetIcsTransportFails
  \/ \E s \in Streams : GetIcsBegin(s)
  \/ ReadLine

SpecFetch == InitFetch /\ [][NextFetch]_vars

\* any number of fetches of one and the same response body
InitRefetch ==
  /\ InitIngest /\ InitLeds /\ tmShared = TRUE /\ overrunHitsCount = FALSE
  /\ InitLoop
  /\ served \in Streams

NextRefetch ==
  \/ GetIcsTransportFails
  \/ GetIcsBegin(served)
  \/ ReadLine

SpecRefetch == InitRefetch /\ [][NextRefetch]_vars

\* fetches of long calendars
NextBulk ==
  \/ GetIcsTransportFails
  \/ \E s \in BulkStreams : GetIcsBegin(s)
  \/ ReadLine

SpecBulk == InitFetch /\ [][NextBulk]_vars

\* n written with width decimal digits, as a calendar file writes a date field
RECURSIVE DigitsOf(_, _)
DigitsOf(n, width) ==
  IF width = 0 THEN <<>> ELSE DigitsOf(n \div 10, width - 1) \o <<DigitChars[(n % 10) + 1]>>

\* the date marker line of the day d of month m of year y
DateLine(y, m, d) == eventTrigger \o DigitsOf(y, 4) \o DigitsOf(m, 2) \o DigitsOf(d, 2)

\* 4-digit years in and around 2000..2255, months and days of calendar entries
Years == {1744, 1999, 2000, 2001, 2025, 2099, 2255, 2256, 2281, 2511, 2512, 9999}
Months == {1, 3, 12}
Days == {1, 31}

\* fetches of a calendar with one collection on a chosen date
InitYear ==
  /\ InitIngest /\ InitLeds /\ tmShared = TRUE /\ overrunHitsCount = FALSE
  /\ InitLoop
  /\ \E y \in Years, m \in Months, d \in Days :
       served = <<DateLine(y, m, d), LineResidual, LineOther>>

NextYear ==
  \/ GetIcsTransportFails
  \/ GetIcsBegin(served)
  \/ ReadLine

SpecYear == InitYear /\ [][NextYear]_vars

\* a category line whose label is none of TrashTypeStrings
LineUnknown == eventTypeTrigger \o <<"S", "p", "e", "r", "r", "m", "u", "e", "l", "l">>

\* the longest response body of the streams with unknown labels
MaxLabelStreamLen == 4

LabelStreams ==
  SeqsUpTo({LineDate1, LineResidual, LineUnknown}, MaxLabelStreamLen)

\* fetches of calendars with known and unknown labels
NextLabels ==
  \/ GetIcsTransportFails
  \/ \E s \in LabelStreams : GetIcsBegin(s)
  \/ ReadLine

SpecLabels == InitFetch /\ [][NextLabels]_vars

(***************************************************************************)
(* Date Matcher and Display Mapper: isEventOnDate, updateLeds              *)
(***************************************************************************)
isEventOnDate(event, tm) ==
  /\ event.year + 100 = tm.tm_year
  /\ event.month = tm.tm_mon + 1
  /\ event.day = tm.tm_mday

Colour(type) == <<TrashTypeRed[type + 1], TrashTypeGreen[type + 1], TrashTypeBlue[type + 1]>>

\* if (thisDay) day = TODAY;  if (nextDay) day = TOMORROW;  (both ifs are taken in turn)
DayTag(isThisDay, isNextDay) == IF isNextDay THEN TOMORROW ELSE TODAY

\* The body of the scan loop for events[i], on
\* acc = [todaysEvents, n (numberOfTodaysEvents), rgb, thisDay, nextDay].
\* A write to todaysEvents[n] with n >= COUNT is past the end of the array:
\* undefined behaviour.  Two outcomes are modelled.  If numberOfTodaysEvents lies
\* directly behind the array (hitsCount), the write of .type to todaysEvents[COUNT]
\* overwrites it before it is incremented; otherwise the write lands in memory
\* that is not part of this model and the count goes on counting.
ScanStep(acc, event, tmToday, tmNext, hitsCount) ==
  LET isThisDay == isEventOnDate(event, tmToday)
      isNextDay == isEventOnDate(event, tmNext)
      n == acc.n
  IN IF isThisDay \/ isNextDay
     THEN [todaysEvents |->
             IF n \in 0..(COUNT - 1)
             THEN [acc.todaysEvents EXCEPT
                     ![n] = [type |-> event.type, day |-> DayTag(isThisDay, isNextDay)]]
             ELSE acc.todaysEvents,
           n |-> IF n = COUNT /\ hitsCount THEN event.type + 1 ELSE n + 1,
           rgb |-> Colour(event.type),
           thisDay |-> isThisDay,
           nextDay |-> isNextDay]
     ELSE [acc EXCEPT !.thisDay = isThisDay, !.nextDay = isNextDay]

\* for (int i = 0; i < numberOfEvents; i++): the events from index i on
RECURSIVE Scan(_, _, _, _, _, _, _)
Scan(acc, ev, count, i, tmToday, tmNext, hitsCount) ==
  IF i < count
  THEN Scan(ScanStep(acc, EventAt(ev, i), tmToday, tmNext, hitsCount), ev, count, i + 1,
            tmToday, tmNext, hitsCount)
  ELSE acc

\* if (p != numOfNeoPixels / 2 && thisDay) Color(0, 0, 0) else Color(r, g, b)
SingleSlot(p, isThisDay, rgb) ==
  IF p # numOfNeoPixels \div 2 /\ isThisDay THEN <<0, 0, 0>> ELSE rgb

\* slot 0 off; slot p >= 1 shows todaysEvents[p - 1]
MultiSlot(p, te) == IF p = 0 THEN <<0, 0, 0>> ELSE Colour(te[p - 1].type)

\* the if / else if / else on numberOfTodaysEvents
BaseColours(n, te, isThisDay, rgb) ==
  [p \in 0..(numOfNeoPixels - 1) |->
     IF n = 1 THEN SingleSlot(p, isThisDay, rgb)
     ELSE IF 1 < n THEN MultiSlot(p, te)
     ELSE <<0, 0, 0>>]

FailureOverlayInverted(px, ok) == IF ok THEN [px EXCEPT ![0] = <<255, 0, 0>>] ELSE px

\* if (!lastEventUpdateSuccessful) pixels.setPixelColor(0, Color(255, 0, 0));
FailureOverlay(px, ok) == IF ~ok THEN [px EXCEPT ![0] = <<255, 0, 0>>] ELSE px

LocalTimeFailedNever(haveTime) == FALSE

\* if (!getLocalTime(&localTime)) return false;
LocalTimeFailed(haveTime) == ~haveTime

\* The call updateLeds(ok); haveTime is the result of getLocalTime.
\* The two localtime() calls: the C standard lets the second call overwrite the
\* object the first returned a pointer to (one static struct tm; newlib, as on the
\* ESP8266 and the ESP32, does so).  With tmShared, *timeinfo holds the next day
\* from that call on: in the scan and in the month and day taken at the end.
updateLedsCall(ok, haveTime) ==
  /\ pc # "reading"
  /\ gotLocalTime' = haveTime
  /\ IF LocalTimeFailed(haveTime)
     THEN /\ newMonth' = FALSE
          /\ refreshed' = FALSE
          /\ UNCHANGED <<todaysEvents, numberOfTodaysEvents, pixels, shown, lastMonth,
                         lastDay, firstRun, staticsInit, timeinfo, timeinfoNextDay,
                         thisDay, lastEventUpdateSuccessful>>
     ELSE LET today == TmOf(DateOf(clockDay))
              month0 == IF staticsInit THEN lastMonth ELSE today.tm_mon
              day0 == IF staticsInit THEN lastDay ELSE today.tm_mday
          IN /\ staticsInit' = TRUE
             /\ firstRun' = firstRun
             /\ IF ~firstRun /\ day0 = today.tm_mday
                THEN /\ newMonth' = FALSE
                     /\ refreshed' = FALSE
                     /\ lastMonth' = month0
                     /\ lastDay' = day0
                     /\ UNCHANGED <<todaysEvents, numberOfTodaysEvents, pixels, shown,
                                    timeinfo, timeinfoNextDay, thisDay,
                                    lastEventUpdateSuccessful>>
                ELSE LET next == TmOf(DateOf(clockDay + 1))
                         tmToday == IF tmShared THEN next ELSE today
                         acc == Scan([todaysEvents |-> todaysEvents, n |-> 0,
                                      rgb |-> <<0, 0, 0>>, thisDay |-> FALSE,
                                      nextDay |-> FALSE],
                                     events, numberOfEvents, 0, tmToday, next,
                                     overrunHitsCount)
                         px == FailureOverlay(
                                 BaseColours(acc.n, acc.todaysEvents, acc.thisDay, acc.rgb),
                                 ok)
                     IN /\ timeinfo' = tmToday
                        /\ timeinfoNextDay' = next
                        /\ todaysEvents' = acc.todaysEvents
                        /\ numberOfTodaysEvents' = acc.n
                        /\ thisDay' = acc.thisDay
                        /\ pixels' = px
                        /\ shown' = px
                        /\ refreshed' = TRUE
                        /\ lastEventUpdateSuccessful' = ok
                        /\ newMonth' = (month0 # tmToday.tm_mon)
                        /\ lastMonth' = tmToday.tm_mon
                        /\ lastDay' = tmToday.tm_mday
  /\ UNCHANGED clockDay

\* a tick of the refresh on its own: the call, nothing else of the program moves
updateLeds(ok, haveTime) ==
  /\ updateLedsCall(ok, haveTime)
  /\ UNCHANGED <<ingestVars, buildVars, loopVars>>

\* the last day of the run the wall clock reaches
MaxClockDay == 3

\* midnight passes
AdvanceClock ==
  /\ clockDay < MaxClockDay
  /\ clockDay' = clockDay + 1
  /\ UNCHANGED <<todaysEvents, numberOfTodaysEvents, pixels, shown, lastMonth, lastDay,
                 firstRun, staticsInit, timeinfo, timeinfoNextDay, thisDay,
                 lastEventUpdateSuccessful, refreshed, newMonth, gotLocalTime>>
  /\ UNCHANGED <<ingestVars, buildVars, loopVars>>

(***************************************************************************)
(* Specification of the refresh: an Event list as a fetch leaves it, then  *)
(* ticks of the main loop while the days pass.                             *)
(***************************************************************************)
\* the longest freely chosen Event list
MaxEvents == 3

\* a calendar may list its last collection again and again: the copies appended
ExtraCopies == 5

EventChoices ==
  { [type |-> RESIDUAL, year |-> 25, month |-> 3, day |-> 31],
    [type |-> BIO, year |-> 25, month |-> 4, day |-> 1],
    [type |-> PLASTIC, year |-> 25, month |-> 4, day |-> 1] }

EventLists ==
  SeqsUpTo(EventChoices, MaxEvents)
    \cup {l \o [i \in 1..ExtraCopies |-> l[Len(l)]] :
            l \in SeqsUpTo(EventChoices, MaxEvents) \ {<<>>}}

InitRefresh ==
  /\ InitLeds
  /\ InitBuild
  /\ InitLoop
  /\ \E list \in EventLists :
       /\ events = [i \in 0..(maxNumberOfEvents - 1) |->
                      IF i < Len(list) THEN list[i + 1] ELSE NoEvent]
       /\ numberOfEvents = Len(list)
       /\ getIcsReturn = (Len(list) # 0)
       /\ lastResult = <<list>>
  /\ trigger = FALSE
  /\ pc = "parsed"
  /\ body = <<>>
  /\ oldLine = <<>>
  /\ onlyDigitsInLine = FALSE
  /\ zeroLines = 0
  /\ stream = <<>>
  /\ served = <<>>

NextRefresh ==
  \/ \E ok \in BOOLEAN, haveTime \in BOOLEAN : updateLeds(ok, haveTime)
  \/ AdvanceClock

SpecRefresh == InitRefresh /\ [][NextRefresh]_vars

(***************************************************************************)
(* The main loop: loop, updateIcs, handleFailure                           *)
(***************************************************************************)
\* handleFailure: const int waitSeconds = 600;
waitSeconds == 600

handleFailureAlwaysNonCritical(n) == TRUE

\* handleFailure's result: if (0 < numberOfEvents) return true; ... return false;
handleFailure(n) == 0 < n

\* handleFailure's blink loop: toggle starts true and is flipped before each of
\* the waitSeconds shows; these are the colours of the last show
BlinkColours ==
  LET toggle == (waitSeconds % 2 = 0)
  IN [p \in 0..(numOfNeoPixels - 1) |-> <<255 * (IF toggle THEN 1 ELSE 0), 0, 0>>]

\* the response bodies the server hands out while the loop runs: nothing, a date
\* line without a category (no Event), one collection, another one, both
LoopStreams ==
  { <<>>,
    <<LineDate1, LineOther>>,
    <<LineDate1, LineResidual, LineOther>>,
    <<LineDate2, LineBio, LineOther>>,
    <<LineDate1, LineResidual, LineDate2, LineBio, LineOther>> }

\* loop(), first pass: firstRun = false; success = updateIcs(), as far as the first
\* getIcs call of updateIcs (bool lastEventUpdateSuccessful = true)
LoopFirstRun ==
  /\ loopPc = "loop"
  /\ loopFirstRun
  /\ loopFirstRun' = FALSE
  /\ updateIcsOk' = TRUE
  /\ loopPc' = "getIcs"
  /\ pc' = "start"
  /\ UNCHANGED success
  /\ UNCHANGED <<events, numberOfEvents, trigger, body, oldLine, onlyDigitsInLine,
                 zeroLines, getIcsReturn, stream, served, lastResult>>
  /\ UNCHANGED <<ledVars, buildVars>>

\* getIcs, called from updateIcs
LoopGetIcsTransportFails == loopPc = "getIcs" /\ pc = "start" /\ GetIcsTransportFails

LoopGetIcsBegin(s) == loopPc = "getIcs" /\ pc = "start" /\ GetIcsBegin(s)

LoopReadLine == loopPc = "getIcs" /\ ReadLine

\* updateIcs, from the return of a getIcs call to its own return or to the next
\* getIcs call: the while (!success) loop with handleFailure.  Every call of
\* updateIcs in loop() is followed by updateLeds: the one at line 110 at once,
\* those at lines 116 and 121 at the start of the next loop() pass.
updateIcsReturned ==
  /\ loopPc = "getIcs"
  /\ pc \in {"parsed", "failed"}
  /\ IF getIcsReturn
     THEN /\ success' = updateIcsOk
          /\ loopPc' = "leds"
          /\ UNCHANGED <<updateIcsOk, pc, pixels, shown>>
     ELSE IF handleFailure(numberOfEvents)
     THEN /\ updateIcsOk' = FALSE
          /\ success' = FALSE
          /\ loopPc' = "leds"
          /\ UNCHANGED <<pc, pixels, shown>>
     ELSE /\ pixels' = BlinkColours
          /\ shown' = BlinkColours
          /\ updateIcsOk' = TRUE
          /\ pc' = "start"
          /\ UNCHANGED <<loopPc, success>>
  /\ UNCHANGED loopFirstRun
  /\ UNCHANGED <<events, numberOfEvents, trigger, body, oldLine, onlyDigitsInLine,
                 zeroLines, getIcsReturn, stream, served, lastResult>>
  /\ UNCHANGED <<todaysEvents, numberOfTodaysEvents, lastMonth, lastDay, firstRun,
                 staticsInit, timeinfo, timeinfoNextDay, thisDay,
                 lastEventUpdateSuccessful, refreshed, newMonth, gotLocalTime, clockDay>>
  /\ UNCHANGED buildVars

\* loop() from updateLeds(success) on: a new month, or a failed update after the
\* delay, calls updateIcs (as far as its first getIcs call)
LoopTick ==
  /\ loopPc = "leds"
  /\ \E haveTime \in BOOLEAN : updateLedsCall(success, haveTime)
  /\ IF newMonth' \/ ~success
     THEN /\ loopPc' = "getIcs"
          /\ pc' = "start"
          /\ updateIcsOk' = TRUE
     ELSE UNCHANGED <<loopPc, pc, updateIcsOk>>
  /\ UNCHANGED <<loopFirstRun, success>>
  /\ UNCHANGED <<events, numberOfEvents, trigger, body, oldLine, onlyDigitsInLine,
                 zeroLines, getIcsReturn, stream, served, lastResult>>
  /\ UNCHANGED buildVars

\* the program from setup() on (no Event list here holds six matches of one day)
InitRun ==
  /\ InitIngest /\ InitLeds /\ InitLoop
  /\ tmShared \in BOOLEAN /\ overrunHitsCount = FALSE
  /\ served = <<>>

NextLoop ==
  \/ LoopFirstRun
  \/ LoopGetIcsTransportFails
  \/ \E s \in LoopStreams : LoopGetIcsBegin(s)
  \/ LoopReadLine
  \/ updateIcsReturned
  \/ LoopTick
  \/ AdvanceClock

SpecLoop == InitRun /\ [][NextLoop]_vars

(***************************************************************************)
(* Claims about the ingestion                                              *)
(***************************************************************************)
\* a raw line that carries the date marker / the category marker with a label
IsDateLine(l) == StrStr(l, eventTrigger)
IsCategoryLine(l) == ~IsDateLine(l) /\ StrStr(l, eventTypeTrigger) /\ MatchType(l) < COUNT

\* the date marker lines directly followed by a category marker line
ValidPairs(lines) ==
  Cardinality({i \in 1..(Len(lines) - 1) : IsDateLine(lines[i]) /\ IsCategoryLine(lines[i + 1])})

\* the raw lines the pass under way has read so far
Consumed == SubSeq(stream, 1, Len(stream) - Len(body))

\* C1: the stored event count is always within 0..100; a pass over a stream with
\* more than 100 valid date+category pairs ends with exactly 100 stored events;
\* and once the count is 100 no further line of that pass changes the count or
\* any stored event.
C1_CapacityClamp ==
  [][ /\ numberOfEvents' \in 0..maxNumberOfEvents
      /\ (pc = "reading" /\ pc' = "parsed" /\ ValidPairs(stream) > maxNumberOfEvents)
           => numberOfEvents' = maxNumberOfEvents
      /\ (pc = "reading" /\ numberOfEvents = maxNumberOfEvents)
           => (numberOfEvents' = numberOfEvents /\ events' = events) ]_vars

\* the pass stands at capacity and has gone on reading pairs past the hundredth
C1_Witness ==
  /\ pc = "reading"
  /\ numberOfEvents = maxNumberOfEvents
  /\ ValidPairs(Consumed) > maxNumberOfEvents + 10
  /\ ValidPairs(stream) = BulkPairs
  /\ \A i \in 0..(maxNumberOfEvents - 1) :
       EventAt(events, i) = [type |-> RESIDUAL, year |-> 25, month |-> 3, day |-> 31]

\* C2: in every fetch, a category line read before any date line of that fetch's
\* stream commits no Event (the count stays 0), and a stream that starts with such
\* an orphan category line leaves exactly the events the rest of the stream
\* produces on its own.
C2_OrphanCategoryIgnored ==
  [][ /\ (pc' = "reading" /\ \A i \in 1..Len(Consumed') : ~IsDateLine(Consumed'[i]))
           => numberOfEvents' = 0
      /\ (pc = "reading" /\ pc' = "parsed" /\ stream # <<>> /\ IsCategoryLine(Head(stream)))
           => lastResult' = <<PassResult(events, FALSE, Tail(stream))>> ]_vars

\* C3: two parse passes in succession over the same response body leave the same
\* Event list (count and, below the count, type, year, month, day).
C3_IdempotentReparse ==
  [][ (pc = "reading" /\ pc' = "parsed" /\ lastResult # <<>>)
        => lastResult' = lastResult ]_vars

(***************************************************************************)
(* Claims about the refresh                                                *)
(***************************************************************************)
\* the events the last scan matched, as it evaluated thisDay and nextDay
OnThisDay(i) == isEventOnDate(events[i], timeinfo)
OnNextDay(i) == isEventOnDate(events[i], timeinfoNextDay)
Matches == {i \in 0..(numberOfEvents - 1) : OnThisDay(i) \/ OnNextDay(i)}

\* the number of matches in front of events[i]: the place of its TodaysEvent
Rank(i) == Cardinality({j \in Matches : j < i})

\* the match the scan came to last (its colour is left in r, g, b)
LastMatch == CHOOSE i \in Matches : \A j \in Matches : j <= i

\* The calendar date of the tick that refreshed last, and of the day after it.
\* *timeinfoNextDay is not overwritten after the scan, so it holds the day after.
DayAfterTick == timeinfoNextDay
DayOfTick == TmOf(DateOf(CHOOSE d \in 0..MaxClockDay : TmOf(DateOf(d + 1)) = timeinfoNextDay))

\* C4: an Event that matches both the 'today' and the 'tomorrow' date of the scan
\* yields exactly one TodaysEvent, tagged TODAY; one that matches only today is
\* tagged TODAY, one that matches only tomorrow TOMORROW.  (Stated for the scans
\* whose matches fit the todaysEvents array.)
C4_TodayTakesPriority ==
  (refreshed /\ Cardinality(Matches) <= COUNT) =>
     /\ numberOfTodaysEvents = Cardinality(Matches)
     /\ \A i \in Matches :
          todaysEvents[Rank(i)] =
            [type |-> events[i].type, day |-> IF OnThisDay(i) THEN TODAY ELSE TOMORROW]

\* C5: one match, on the day of the tick, last fetch successful: every slot shows
\* the category colour except the centre slot, which is black.
C5_SingleTodayCentreDark ==
  (/\ refreshed
   /\ lastEventUpdateSuccessful
   /\ Cardinality(Matches) = 1
   /\ \A i \in Matches : isEventOnDate(events[i], DayOfTick))
  => \A i \in Matches : \A p \in 0..(numOfNeoPixels - 1) :
       shown[p] = IF p = numOfNeoPixels \div 2 THEN <<0, 0, 0>> ELSE Colour(events[i].type)

\* C6: one match, on the day after the tick (not on the day of the tick), last
\* fetch successful: all slots show the category colour.
C6_SingleTomorrowAllLit ==
  (/\ refreshed
   /\ lastEventUpdateSuccessful
   /\ Cardinality(Matches) = 1
   /\ \A i \in Matches : /\ isEventOnDate(events[i], DayAfterTick)
                         /\ ~isEventOnDate(events[i], DayOfTick))
  => \A i \in Matches : \A p \in 0..(numOfNeoPixels - 1) :
       shown[p] = Colour(events[i].type)

\* the index in events of the k-th match in scan order (k from 0)
MatchAt(k) == CHOOSE i \in Matches : Rank(i) = k

C8_FailureOverlay ==
  refreshed =>
    LET base == BaseColours(numberOfTodaysEvents, todaysEvents, thisDay,
                            IF Matches = {} THEN <<0, 0, 0>>
                            ELSE Colour(events[LastMatch].type))
    IN /\ shown[0] = IF lastEventUpdateSuccessful THEN base[0] ELSE <<255, 0, 0>>
       /\ \A p \in 1..(numOfNeoPixels - 1) : shown[p] = base[p]
       /\ pixels = shown

\* a failed fetch, one match whose base colour for slot 0 is not black
C8_Witness ==
  /\ refreshed
  /\ ~lastEventUpdateSuccessful
  /\ numberOfTodaysEvents = 1
  /\ ~thisDay
  /\ shown = [p \in 0..(numOfNeoPixels - 1) |->
                IF p = 0 THEN <<255, 0, 0>> ELSE <<150, 150, 140>>]

\* C9: with the clock available, updateLeds returns newMonth = true exactly on a
\* refreshing tick whose month differs from the month recorded at the refreshing
\* tick before it, and never on the very first tick.
C9_NewMonthOnRollover ==
  [][ (clockDay' = clockDay /\ refreshed')
        => newMonth' = (staticsInit /\ lastMonth # TmOf(DateOf(clockDay)).tm_mon) ]_vars

\* C10: on a tick after the first whose day of the month equals lastDay,
\* updateLeds does not refresh: the TodaysEvent list, the LED slots, lastDay and
\* lastMonth stay as they are and it returns false.
C10_SameDayNoRefresh ==
  [][ (clockDay' = clockDay /\ staticsInit /\ TmOf(DateOf(clockDay)).tm_mday = lastDay)
        => /\ ~refreshed'
           /\ ~newMonth'
           /\ UNCHANGED <<todaysEvents, numberOfTodaysEvents, pixels, shown,
                          lastDay, lastMonth>> ]_vars


(***************************************************************************)
(* Claims about the result of a fetch                                      *)
(***************************************************************************)
\* C11: getIcs returns true if and only if the transport succeeded and the parse
\* pass stored at least one Event: false after a transport failure, and after a
\* pass over the response body true exactly when the Event list it left is not
\* empty.
C11_SuccessIffEvents ==
  /\ pc = "failed" => ~getIcsReturn
  /\ pc = "parsed" =>
       /\ lastResult # <<>>
       /\ getIcsReturn = (lastResult[1] # <<>>)
       /\ getIcsReturn = (numberOfEvents >= 1)

\* the transport succeeded, a date line was parsed, and yet no Event was stored:
\* the fetch reports failure
C11_Witness ==
  /\ pc = "parsed"
  /\ served # <<>>
  /\ trigger
  /\ numberOfEvents = 0
  /\ ~getIcsReturn


\* C12: from one and the same prior state, a fetch whose transport succeeds but
\* whose pass stores no Event is handled like a transport failure: the stored
\* Event list and count are what the transport failure leaves (the prior ones),
\* and handleFailure takes the same path (return at once / wait and retry), so
\* that updateIcs returns the same value.
C12_ZeroEventsLikeTransportFailure ==
  [][ (loopPc = "getIcs" /\ pc = "start" /\ pc' = "reading")
        => LET after == PassResult(events, trigger, stream')
           IN after = <<>> =>
                /\ after = EventList(events, numberOfEvents)
                /\ numberOfEvents' = numberOfEvents
                /\ handleFailure(Len(after)) = handleFailure(numberOfEvents) ]_vars

(***************************************************************************)
(* Claims about the main loop                                              *)
(***************************************************************************)
\* C18: whenever loop() is about to call updateLeds, the Event list is not empty,
\* it is the list the most recent successful getIcs call left (the last parse pass
\* that ran to its end stored it and nothing has touched it since), and the flag
\* handed to updateLeds is the result of the last getIcs call.
C18_ListAtTick ==
  loopPc = "leds" =>
    /\ numberOfEvents >= 1
    /\ lastResult = <<EventList(events, numberOfEvents)>>
    /\ success = getIcsReturn

\* a later update failed at the transport: the tick shows the kept list of the
\* earlier successful fetch, with the failure mark on slot 0
C18_Witness ==
  /\ loopPc = "leds"
  /\ ~success
  /\ pc = "failed"
  /\ numberOfEvents = 2
  /\ refreshed
  /\ ~lastEventUpdateSuccessful
  /\ shown[0] = <<255, 0, 0>>


(***************************************************************************)
(* Further claims about the refresh                                        *)
(***************************************************************************)
\* C13: a tick on which the local time cannot be obtained returns false (no new
\* month) and changes nothing: no LED slot, nothing shown, not the TodaysEvent
\* list, not the rollover state (firstRun, lastDay, lastMonth, whether the statics
\* are initialised); so everything the next tick reads is as before the failed one.
C13_NoClockNoOp ==
  [][ (clockDay' = clockDay /\ ~gotLocalTime')
        => /\ ~newMonth'
           /\ UNCHANGED <<pixels, shown, todaysEvents, numberOfTodaysEvents>>
           /\ UNCHANGED <<firstRun, lastDay, lastMonth, staticsInit>>
           /\ UNCHANGED <<events, numberOfEvents, pc, tmShared, overrunHitsCount>> ]_vars

\* a failed tick after a refresh that lit the display: the colours stand
C13_Witness ==
  /\ ~gotLocalTime
  /\ ~refreshed
  /\ ~newMonth
  /\ staticsInit
  /\ numberOfTodaysEvents = 1
  /\ shown[1] = <<150, 150, 140>>


(***************************************************************************)
(* Further claims about the ingestion                                      *)
(***************************************************************************)
\* the read loop is about to take a raw line that is not empty once trimmed and
\* holds decimal digits only
ReadsDigitsLine ==
  /\ pc = "reading"
  /\ body # <<>>
  /\ Trim(Head(body)) # <<>>
  /\ AllDigits(Trim(Head(body)))

\* C14: a raw line that is non-empty after trimming and consists of decimal
\* digits only is appended to the pending buffer oldLine, and nothing is handed
\* to parseIcsLine in that iteration (no Event, count or parser flag changes).
C14_DigitsLineAppended ==
  [][ ReadsDigitsLine
        => /\ oldLine' = oldLine \o Trim(Head(body))
           /\ UNCHANGED <<events, numberOfEvents, trigger>> ]_vars


\* the logical line the read loop hands to parseIcsLine in its next iteration, if
\* it hands one over (Emits)
Emitted == IF onlyDigitsInLine THEN oldLine \o Trim(Head(body)) ELSE oldLine

Emits ==
  /\ pc = "reading"
  /\ body # <<>>
  /\ Len(Head(body)) # 0
  /\ ~AllDigits(Trim(Head(body)))
  /\ Emitted # <<>>

\* a category marker line / one whose text holds none of the five labels
IsSummaryLine(l) == ~IsDateLine(l) /\ StrStr(l, eventTypeTrigger)
HasNoLabel(l) == \A i \in 1..COUNT : ~StrStr(l, TrashTypeStrings[i])

\* C15: every Event below numberOfEvents has one of the five categories.  A
\* SUMMARY: line with none of the five labels clears the pending state and leaves
\* the count unchanged; while the pending state is clear a SUMMARY: line commits
\* nothing and leaves it clear; and only a DTSTART line sets it again.
C15_KnownTypesOnly ==
  [][ /\ \A i \in 0..(numberOfEvents' - 1) : events'[i].type < COUNT
      /\ (Emits /\ IsSummaryLine(Emitted) /\ HasNoLabel(Emitted))
           => (~trigger' /\ numberOfEvents' = numberOfEvents)
      /\ (Emits /\ IsSummaryLine(Emitted) /\ ~trigger)
           => (~trigger' /\ numberOfEvents' = numberOfEvents /\ events' = events)
      /\ (~trigger /\ trigger') => (Emits /\ IsDateLine(Emitted)) ]_vars

\* a date line, then a SUMMARY: line without a known label, then one with a
\* known label have been handed over: nothing is stored
C15_Witness ==
  /\ pc = "reading"
  /\ stream = <<LineDate1, LineUnknown, LineResidual, LineResidual>>
  /\ body = <<>>
  /\ oldLine = LineResidual
  /\ ~trigger
  /\ numberOfEvents = 0
  /\ events[0].type = COUNT


\* C16: during every refresh the TodaysEvent entries stay within the todaysEvents
\* array: 0 <= numberOfTodaysEvents <= COUNT, also for Event lists in which more
\* than COUNT events fall on today or tomorrow; and no write goes past
\* todaysEvents[COUNT - 1] (the scan writes one entry per matching event, the
\* k-th at index k - 1, so a refresh never has more than COUNT matches to write).
C16_TodaysEventsWithinCapacity ==
  /\ numberOfTodaysEvents \in 0..COUNT
  /\ refreshed => Cardinality(Matches) <= COUNT


\* the struct tm of the clock dates the stored Event is matched against
ClockSamples ==
  {[tm_year |-> cy - 1900, tm_mon |-> cm - 1, tm_mday |-> cd] :
     cy \in Years \cup {2000 + 256, 2025 + 256, 2025 - 256}, cm \in Months, cd \in Days}

\* C17: for a date marker with the 4-digit year y in 2000..2255 the stored 8-bit
\* year is y - 2000, and isEventOnDate matches exactly the clock dates with
\* tm_year + 1900 = y, tm_mon + 1 = month, tm_mday = day; for y outside
\* 2000..2255 the stored year is y - 2000 reduced modulo 256.
C17_YearField ==
  \A y \in Years, m \in Months, d \in Days :
    (pc = "parsed" /\ served = <<DateLine(y, m, d), LineResidual, LineOther>>) =>
      /\ numberOfEvents = 1
      /\ events[0].month = m
      /\ events[0].day = d
      /\ events[0].year \in 0..255
      /\ \E k \in -40..40 : events[0].year + 256 * k = y - 2000
      /\ y \in 2000..2255 =>
           /\ events[0].year = y - 2000
           /\ \A tm \in ClockSamples :
                isEventOnDate(events[0], tm)
                  <=> (tm.tm_year + 1900 = y /\ tm.tm_mon + 1 = m /\ tm.tm_mday = d)

\* the year 2256 has been stored as 0
C17_Witness ==
  /\ pc = "parsed"
  /\ served = <<DateLine(2256, 12, 31), LineResidual, LineOther>>
  /\ numberOfEvents = 1
  /\ events[0] = [type |-> RESIDUAL, year |-> 0, month |-> 12, day |-> 31]


\* a raw line that is not empty once trimmed and is not digits only
IsTextLine(l) == Trim(l) # <<>> /\ ~AllDigits(Trim(l))

\* C19: when a parse pass ends, every raw line that is non-empty and not
\* all-digits has been handed to parseIcsLine, the last one included: no such
\* line is left pending in oldLine; so the first pass of a process over k <= 100
\* date+category pairs, the last category line being the last line of the
\* stream, stores exactly k events.
C19_EveryLineHandedOver ==
  [][ (pc = "reading" /\ pc' = "parsed")
        => /\ (\E i \in 1..Len(stream) : IsTextLine(stream[i])) => oldLine = <<>>
           /\ \A k \in 1..MaxStreamLen :
                (lastResult = <<>> /\ stream = Pairs(k)) => numberOfEvents' = k ]_vars


\* what a refresh of the Event list l computes on the day of the last refresh,
\* with the program's build: the scan's result and the base colours
ScanOf(l) ==
  Scan([todaysEvents |-> [i \in 0..(COUNT - 1) |-> [type |-> 0, day |-> 0]], n |-> 0,
        rgb |-> <<0, 0, 0>>, thisDay |-> FALSE, nextDay |-> FALSE],
       [i \in 0..(Len(l) - 1) |-> l[i + 1]], Len(l), 0, timeinfo, timeinfoNextDay,
       overrunHitsCount)

\* the TodaysEvent list a scan result holds
TodaysList(n, te) == [i \in 1..n |-> te[i - 1]]

\* C20: the colours a refresh shows are a function of the TodaysEvent list and
\* the last-fetch-success flag alone: every Event list of at most COUNT matches
\* that gives, for the same today and tomorrow, the same TodaysEvent list as the
\* stored one gives the colours shown.
C20_ColoursFromTodaysEvents ==
  (refreshed /\ numberOfTodaysEvents <= COUNT) =>
    \A l \in SeqsUpTo(EventChoices, MaxEvents) :
      LET acc == ScanOf(l)
      IN TodaysList(acc.n, acc.todaysEvents)
           = TodaysList(numberOfTodaysEvents, todaysEvents)
         => FailureOverlay(BaseColours(acc.n, acc.todaysEvents, acc.thisDay, acc.rgb),
                           lastEventUpdateSuccessful) = shown

=============================================================================
